---- MODULE Spec2Model ----
(***************************************************************************)
(* A model of the grid-based compressible-flow simulator of src/main.rs:   *)
(* the cell arithmetic, the pure grid operations (initialize_grid,         *)
(* calculate_pressure, calculate_fluxes, add_fluid_source,                 *)
(* create_solid_object, apply_boundary_conditions, update_grid) and the    *)
(* frame loop of main.                                                     *)
(*                                                                         *)
(* Numbers.  The program computes in f64.  The model computes in a float   *)
(* of the same shape and smaller size: a value is a multiple of 1/Scale    *)
(* of magnitude at most MaxMag/Scale, or one of +Inf, -Inf, NaN.  Every    *)
(* operation rounds to the nearest representable value, overflows to an    *)
(* infinity and produces NaN where IEEE-754 does (Inf - Inf, 0 * Inf,      *)
(* 0/0, Inf/Inf).  Signed zeros are not distinguished.  With Scale = 40    *)
(* the literals of the program (1.225, 1.4, 0.1, 2.0, 5.0, ...) are all    *)
(* represented exactly.                                                    *)
(***************************************************************************)
EXTENDS Integers, Sequences, FiniteSets, TLC

\* ------------------------------------------------------------------ bounds
\* Precision (units per 1.0) and range (largest finite magnitude, in units)
\* of the model's float.  MaxMag * Scale stays below 2^31.
Scale == 40
MaxMag == 50000000
\* Frames the frame loop may run.
MaxTicks == 15
\* Largest width and height of the small grids the pure operations are
\* applied to, and of the undersized grids handed to the constructor.
MaxDim == 5
\* Input grids: seed 0 is the all-ambient grid, seeds 1..MaxSeed are textured.
MaxSeed == 2
\* Source parameters tried on the small grids (whole units), and the number
\* of consecutive injections.
MaxRate == 2
MaxVelocity == 2
MaxCalls == 2

\* --------------------------------------------------------------- the float
PosInf == MaxMag + 1
NegInf == 0 - (MaxMag + 1)
NaN == MaxMag + 2

IsNaN(a) == a = NaN
IsInf(a) == a = PosInf \/ a = NegInf
Abs(a) == IF a < 0 THEN 0 - a ELSE a
Sign(a) == IF a < 0 THEN 0 - 1 ELSE IF a > 0 THEN 1 ELSE 0
Signed(s, m) == IF s < 0 THEN 0 - m ELSE m
Inf(s) == IF s < 0 THEN NegInf ELSE PosInf
Clamp(v) == IF v > MaxMag THEN PosInf ELSE IF v < 0 - MaxMag THEN NegInf ELSE v

\* The literal whole.milli (milli in thousandths), e.g. Lit(1, 225) is 1.225.
Lit(whole, milli) == whole * Scale + (milli * Scale) \div 1000

Add(a, b) ==
    IF IsNaN(a) \/ IsNaN(b) THEN NaN
    ELSE IF IsInf(a) THEN (IF IsInf(b) /\ a # b THEN NaN ELSE a)
    ELSE IF IsInf(b) THEN b
    ELSE Clamp(a + b)

Neg(a) == IF IsNaN(a) THEN NaN ELSE 0 - a

Sub(a, b) == Add(a, Neg(b))

Mul(a, b) ==
    IF IsNaN(a) \/ IsNaN(b) THEN NaN
    ELSE IF IsInf(a) \/ IsInf(b)
         THEN (IF a = 0 \/ b = 0 THEN NaN ELSE Inf(Sign(a) * Sign(b)))
    ELSE IF a = 0 \/ b = 0 THEN 0
    ELSE IF Abs(b) > (MaxMag * Scale) \div Abs(a) THEN Inf(Sign(a) * Sign(b))
    ELSE Signed(Sign(a) * Sign(b), (Abs(a) * Abs(b) + Scale \div 2) \div Scale)

Div(a, b) ==
    IF IsNaN(a) \/ IsNaN(b) THEN NaN
    ELSE IF IsInf(a)
         THEN (IF IsInf(b) THEN NaN ELSE Inf(Sign(a) * (IF b < 0 THEN 0 - 1 ELSE 1)))
    ELSE IF IsInf(b) THEN 0
    ELSE IF b = 0 THEN (IF a = 0 THEN NaN ELSE Inf(Sign(a)))
    ELSE Clamp(Signed(Sign(a) * Sign(b), (Abs(a) * Scale + Abs(b) \div 2) \div Abs(b)))

\* ------------------------------------------------------ program constants
AIR_DENSITY == Lit(1, 225)
GAMMA_AIR == Lit(1, 400)
AIR_ENERGY == Lit(1000, 0)

\* main's configuration.
grid_width == 80
grid_height == 60
INLET_WIDTH == 20
EMISSION_RATE == 20000
FLUID_VELOCITY == 65000
\* create_solid_object's block: rows 20..40 and columns 30..50, end excluded.
BLOCK_Y_START == 20
BLOCK_Y_END == 40
BLOCK_X_START == 30
BLOCK_X_END == 50

\* ------------------------------------------------------------- grid state
NewCell(d, mx, my, e) ==
    [density |-> d, momentum_x |-> mx, momentum_y |-> my, energy |-> e]

\* A Vec<Vec<_>> is a function on 0..len-1 of functions on 0..len-1.
Height(grid) == Cardinality(DOMAIN grid)
Width(grid) == IF Height(grid) = 0 THEN 0 ELSE Cardinality(DOMAIN grid[0])

AmbientGrid(width, height) ==
    [y \in 0..(height - 1) |-> [x \in 0..(width - 1) |->
        NewCell(AIR_DENSITY, 0, 0, AIR_ENERGY)]]

\* grid[center_y][center_x] is out of bounds on an empty grid.
InitializePanics(width, height) == width = 0 \/ height = 0

initialize_grid(width, height) ==
    LET center_x == width \div 2
        center_y == height \div 2
    IN [AmbientGrid(width, height) EXCEPT
            ![center_y][center_x].density = Lit(10, 0),
            ![center_y][center_x].energy = Lit(1000, 0)]

\* ---------------------------------------------------------- pressure model
calculate_pressure(cell, gamma) ==
    LET kinetic_energy ==
            Div(Add(Mul(cell.momentum_x, cell.momentum_x),
                    Mul(cell.momentum_y, cell.momentum_y)),
                Mul(Lit(2, 0), cell.density))
    IN Mul(Sub(gamma, Lit(1, 0)), Sub(cell.energy, kinetic_energy))

\* --------------------------------------------------------------- flux step
\* A new grid of the same dimensions that holds none of the input's values.
FreshGrid(grid) == AmbientGrid(Width(grid), Height(grid))

\* let mut new_grid = grid.clone();
CloneGrid(grid) == grid

SkipNothing(solid, y, x) == FALSE

\* if solid[y][x] { continue; }
SkipCell(solid, y, x) == solid[y][x]

\* The neighbours alone, the cell itself left out of the sum.
AverageOfNeighbours(c, up, down, left, right) ==
    Div(Add(Add(Add(up, down), left), right), Lit(5, 0))

\* (c + up + down + left + right) / 5.0, summed left to right.
Average(c, up, down, left, right) ==
    Div(Add(Add(Add(Add(c, up), down), left), right), Lit(5, 0))

\* The body of the loop for one interior, non-solid cell: new_cell is
\* new_grid[y][x] before the update, the result is new_grid[y][x] after it.
FluxCell(grid, new_cell, gamma, y, x) ==
    LET pressure == calculate_pressure(grid[y][x], gamma)
        pressure_left == calculate_pressure(grid[y][x - 1], gamma)
        pressure_right == calculate_pressure(grid[y][x + 1], gamma)
        pressure_up == calculate_pressure(grid[y - 1][x], gamma)
        pressure_down == calculate_pressure(grid[y + 1][x], gamma)
        pressure_flux_x == Div(Sub(pressure_right, pressure_left), Lit(2, 0))
        pressure_flux_y ==
            Div(Mul(Lit(0, 100), Sub(pressure_down, pressure_up)), Lit(2, 0))
        density_flux_x ==
            Div(Sub(grid[y][x + 1].density, grid[y][x - 1].density), Lit(2, 0))
        density_flux_y ==
            Div(Sub(grid[y + 1][x].density, grid[y - 1][x].density), Lit(2, 0))
        avg_density ==
            Average(grid[y][x].density, grid[y - 1][x].density,
                    grid[y + 1][x].density, grid[y][x - 1].density,
                    grid[y][x + 1].density)
        avg_energy ==
            Average(grid[y][x].energy, grid[y - 1][x].energy,
                    grid[y + 1][x].energy, grid[y][x - 1].energy,
                    grid[y][x + 1].energy)
    IN NewCell(avg_density,
               Sub(new_cell.momentum_x,
                   Add(pressure_flux_x,
                       Div(Mul(density_flux_x, pressure), Lit(2, 0)))),
               Sub(new_cell.momentum_y,
                   Add(pressure_flux_y,
                       Div(Mul(density_flux_y, pressure), Lit(2, 0)))),
               avg_energy)

\* solid[y][x] is read for every interior cell of the grid, row by row: an
\* index out of the mask's bounds panics.
FluxPanics(grid, solid) ==
    \E y \in 1..(Height(grid) - 2), x \in 1..(Width(grid) - 2) :
        y >= Height(solid) \/ x >= Width(solid)

calculate_fluxes(grid, solid, gamma) ==
    LET height == Height(grid)
        width == Width(grid)
        new_grid == CloneGrid(grid)
    IN [y \in DOMAIN new_grid |-> [x \in DOMAIN new_grid[y] |->
            IF /\ 1 <= y /\ y < height - 1
               /\ 1 <= x /\ x < width - 1
               /\ ~SkipCell(solid, y, x)
            THEN FluxCell(grid, new_grid[y][x], gamma, y, x)
            ELSE new_grid[y][x]]]

\* The owned grid is left as it was.
KeepGrid(grid, new_grid) == grid

\* *grid = new_grid;
update_grid(grid, new_grid) == new_grid

\* --------------------------------------------------------- source injector
\* momentum_x accumulated instead of overwritten.
SourceCellAccumulate(cell, emission_rate, fluid_velocity) ==
    NewCell(Add(cell.density, emission_rate),
            Add(cell.momentum_x, fluid_velocity),
            cell.momentum_y,
            Add(cell.energy, Add(AIR_ENERGY, Lit(100, 0))))

\* The energy injection coupled to the emission rate.
SourceCellEnergyByRate(cell, emission_rate, fluid_velocity) ==
    NewCell(Add(cell.density, emission_rate),
            fluid_velocity,
            cell.momentum_y,
            Add(cell.energy, Add(emission_rate, Lit(100, 0))))

\* density overwritten instead of accumulated.
SourceCellOverwrite(cell, emission_rate, fluid_velocity) ==
    NewCell(emission_rate,
            fluid_velocity,
            cell.momentum_y,
            Add(cell.energy, Add(AIR_ENERGY, Lit(100, 0))))

\* The loop body on grid[y][0]:
\*   density += emission_rate; momentum_x = fluid_velocity;
\*   energy += AIR_ENERGY + 100.0
SourceCell(cell, emission_rate, fluid_velocity) ==
    NewCell(Add(cell.density, emission_rate),
            fluid_velocity,
            cell.momentum_y,
            Add(cell.energy, Add(AIR_ENERGY, Lit(100, 0))))

\* center_y - width / 2 in usize: below zero it panics where overflow checks
\* are compiled in, and wraps to a start beyond the end (an empty range)
\* where they are not.
SourceUnderflows(grid, width) == width \div 2 > Height(grid) \div 2

\* The rows center_y - width/2 .. center_y + width/2, end excluded.
InletRows(height, width) ==
    LET center_y == height \div 2
    IN (center_y - width \div 2)..(center_y + width \div 2 - 1)

add_fluid_source(grid, width, emission_rate, fluid_velocity) ==
    LET rows == InletRows(Height(grid), width)
    IN [y \in DOMAIN grid |->
            IF y \in rows
            THEN [grid[y] EXCEPT ![0] = SourceCell(@, emission_rate, fluid_velocity)]
            ELSE grid[y]]

\* -------------------------------------------------------- obstacle builder
\* solid_object[y][x] = true for y in 20..40, x in 30..50 is out of bounds on
\* a mask with fewer than 40 rows or 50 columns.
CreateSolidPanics(width, height) == height < BLOCK_Y_END \/ width < BLOCK_X_END

create_solid_object(width, height) ==
    [y \in 0..(height - 1) |-> [x \in 0..(width - 1) |->
        /\ BLOCK_Y_START <= y /\ y < BLOCK_Y_END
        /\ BLOCK_X_START <= x /\ x < BLOCK_X_END]]

\* ------------------------------------------------------- boundary enforcer
\* grid[y][1] and grid[1][x] are out of bounds on a grid one cell wide or high.
BoundaryPanics(grid) == Width(grid) < 2 \/ Height(grid) < 2

\* One iteration of the first loop, on row `row` of width `width`.
BoundaryRow(row, width) ==
    LET r1 == [row EXCEPT ![0].momentum_y = 0]
        r2 == [r1 EXCEPT ![width - 1].momentum_y = 0]
        r3 == [r2 EXCEPT ![0].momentum_x = r2[1].momentum_x]
        r4 == [r3 EXCEPT ![width - 1].momentum_x = r3[width - 2].momentum_x]
    IN r4

\* for y in 0..height { ... }
LeftRightBoundaries(grid) ==
    LET width == Width(grid)
    IN [y \in DOMAIN grid |-> BoundaryRow(grid[y], width)]

\* One iteration of the second loop, on column x: `column` is the column
\* before the iteration (column[y] is grid[y][x]), the result the column
\* after it.  The iteration for x reads and writes column x alone.
BoundaryColumn(column, height) ==
    LET c1 == [column EXCEPT ![0].momentum_y = 0]
        c2 == [c1 EXCEPT ![height - 1].momentum_y = 0]
        c3 == [c2 EXCEPT ![0].density = c2[1].density]
        c4 == [c3 EXCEPT ![height - 1].density = c3[height - 2].density]
        c5 == [c4 EXCEPT ![0].energy = c4[1].energy]
        c6 == [c5 EXCEPT ![height - 1].energy = c5[height - 2].energy]
    IN c6

\* for x in 0..width { ... }
TopBottomBoundaries(grid) ==
    LET height == Height(grid)
        width == Width(grid)
        columns == [x \in 0..(width - 1) |->
                        BoundaryColumn([y \in DOMAIN grid |-> grid[y][x]], height)]
    IN [y \in DOMAIN grid |-> [x \in DOMAIN grid[y] |-> columns[x][y]]]

\* The left and right edges alone.
LeftRightBoundariesOnly(grid) == LeftRightBoundaries(grid)

apply_boundary_conditions(grid) ==
    TopBottomBoundaries(LeftRightBoundaries(grid))

\* ------------------------------------------------------------- render sink
\* solid[y][x] is read for every cell of the grid.
RenderPanics(grid, solid) ==
    Height(solid) < Height(grid) \/ Width(solid) < Width(grid)

\* What render_grid is handed: the grid and the mask.
render_grid(grid, solid) == [grid |-> grid, solid |-> solid]

\* ------------------------------------------------------------------ state
VARIABLES
    pc,            \* where the program is
    config,        \* the dimensions and source parameters in use
    grid,          \* main's grid: the owned Grid State
    new_grid,      \* main's new_grid (empty while it does not exist)
    solid_object,  \* main's solid_object: the Solid Mask
    observed,      \* what render_grid was last handed
    ticks,         \* frames completed
    log,           \* history: the operations applied, in order (per frame)
    before,        \* history: the grid before the frame / before the last call
    origin,        \* history: the grid as first built
    stop           \* history: the state when a quit signal was polled

vars == <<pc, config, grid, new_grid, solid_object, observed, ticks, log,
          before, origin, stop>>

NoGrid == << >>
NothingObserved == [grid |-> NoGrid, solid |-> NoGrid]
NotStopped ==
    [polled |-> FALSE, event |-> "none", grid |-> NoGrid,
     observed |-> NothingObserved, ticks |-> 0, log |-> << >>]

\* main's literals: an 80 x 60 grid with a mask of the same dimensions, and
\* add_fluid_source(&mut grid, 20, 20000.0, 65000.0).
MainConfig ==
    [width |-> grid_width, height |-> grid_height,
     mask_width |-> grid_width, mask_height |-> grid_height,
     inlet |-> INLET_WIDTH,
     rate |-> Lit(EMISSION_RATE, 0),
     velocity |-> Lit(FLUID_VELOCITY, 0)]

\* The events the pump can deliver.
Events == {"Quit", "KeyDownEscape", "Other"}

\* What counts as a quit signal (for the history variable stop): the
\* window's Quit event, or the Escape key going down.
QuitSignals == {"Quit", "KeyDownEscape"}

IsWindowQuit(event) == event = "Quit"

\* Event::Quit { .. } | Event::KeyDown { keycode: Some(Keycode::Escape), .. }
IsQuitSignal(event) == event \in {"Quit", "KeyDownEscape"}

\* The steps of one frame, in program order.
TickOrder == <<"source", "flux", "boundary", "update", "render">>

\* ----------------------------------------------------------- construction
\* let mut grid = initialize_grid(grid_width, grid_height);
InitGrid ==
    /\ pc = "init_grid"
    /\ ~InitializePanics(config.width, config.height)
    /\ grid' = initialize_grid(config.width, config.height)
    /\ origin' = grid'
    /\ pc' = "init_mask"
    /\ UNCHANGED <<config, new_grid, solid_object, observed, ticks, log, before, stop>>

InitGridPanic ==
    /\ pc = "init_grid"
    /\ InitializePanics(config.width, config.height)
    /\ pc' = "panicked"
    /\ UNCHANGED <<config, grid, new_grid, solid_object, observed, ticks, log,
                   before, origin, stop>>

\* let solid_object = create_solid_object(grid_width, grid_height);
InitMask ==
    /\ pc = "init_mask"
    /\ ~CreateSolidPanics(config.mask_width, config.mask_height)
    /\ solid_object' = create_solid_object(config.mask_width, config.mask_height)
    /\ pc' = "poll"
    /\ UNCHANGED <<config, grid, new_grid, observed, ticks, log, before, origin, stop>>

InitMaskPanic ==
    /\ pc = "init_mask"
    /\ CreateSolidPanics(config.mask_width, config.mask_height)
    /\ pc' = "panicked"
    /\ UNCHANGED <<config, grid, new_grid, solid_object, observed, ticks, log,
                   before, origin, stop>>

\* ------------------------------------------------------------- frame loop
\* for event in event_pump.poll_iter(): one event is taken; a quit signal
\* breaks out of 'running, any other event is dropped.
PollEvent ==
    /\ pc = "poll"
    /\ \E event \in Events :
        /\ pc' = IF IsQuitSignal(event) THEN "stopped" ELSE "poll"
        /\ stop' = IF event \in QuitSignals /\ ~stop.polled
                   THEN [polled |-> TRUE, event |-> event, grid |-> grid,
                         observed |-> observed, ticks |-> ticks, log |-> log]
                   ELSE stop
    /\ UNCHANGED <<config, grid, new_grid, solid_object, observed, ticks, log,
                   before, origin>>

\* poll_iter is exhausted: the frame begins (canvas.clear()).
PollEmpty ==
    /\ pc = "poll"
    /\ ticks < MaxTicks
    /\ pc' = "source"
    /\ before' = grid
    /\ log' = << >>
    /\ UNCHANGED <<config, grid, new_grid, solid_object, observed, ticks, origin, stop>>

\* add_fluid_source(&mut grid, 20, 20000.0, 65000.0);
Source ==
    /\ pc = "source"
    /\ ~SourceUnderflows(grid, config.inlet)
    /\ grid' = add_fluid_source(grid, config.inlet, config.rate, config.velocity)
    /\ log' = Append(log, "source")
    /\ pc' = "flux"
    /\ UNCHANGED <<config, new_grid, solid_object, observed, ticks, before, origin, stop>>

\* With overflow checks: attempt to subtract with overflow.
SourceUnderflowPanic ==
    /\ pc = "source"
    /\ SourceUnderflows(grid, config.inlet)
    /\ pc' = "panicked"
    /\ UNCHANGED <<config, grid, new_grid, solid_object, observed, ticks, log,
                   before, origin, stop>>

\* Without overflow checks: the range is empty and nothing is written.
SourceUnderflowWrap ==
    /\ pc = "source"
    /\ SourceUnderflows(grid, config.inlet)
    /\ log' = Append(log, "source")
    /\ pc' = "flux"
    /\ UNCHANGED <<config, grid, new_grid, solid_object, observed, ticks, before,
                   origin, stop>>

\* let mut new_grid = calculate_fluxes(&grid, &solid_object, GAMMA_AIR);
Flux ==
    /\ pc = "flux"
    /\ ~FluxPanics(grid, solid_object)
    /\ new_grid' = calculate_fluxes(grid, solid_object, GAMMA_AIR)
    /\ log' = Append(log, "flux")
    /\ pc' = "boundary"
    /\ UNCHANGED <<config, grid, solid_object, observed, ticks, before, origin, stop>>

FluxPanic ==
    /\ pc = "flux"
    /\ FluxPanics(grid, solid_object)
    /\ pc' = "panicked"
    /\ UNCHANGED <<config, grid, new_grid, solid_object, observed, ticks, log,
                   before, origin, stop>>

\* apply_boundary_conditions(&mut new_grid);
Boundary ==
    /\ pc = "boundary"
    /\ ~BoundaryPanics(new_grid)
    /\ new_grid' = apply_boundary_conditions(new_grid)
    /\ log' = Append(log, "boundary")
    /\ pc' = "update"
    /\ UNCHANGED <<config, grid, solid_object, observed, ticks, before, origin, stop>>

BoundaryPanic ==
    /\ pc = "boundary"
    /\ BoundaryPanics(new_grid)
    /\ pc' = "panicked"
    /\ UNCHANGED <<config, grid, new_grid, solid_object, observed, ticks, log,
                   before, origin, stop>>

\* update_grid(&mut grid, new_grid): new_grid is moved into the call.
Update ==
    /\ pc = "update"
    /\ grid' = update_grid(grid, new_grid)
    /\ new_grid' = NoGrid
    /\ log' = Append(log, "update")
    /\ pc' = "render"
    /\ UNCHANGED <<config, solid_object, observed, ticks, before, origin, stop>>

\* render_grid(&mut canvas, &grid, &solid_object); then the frame counter,
\* canvas.present() and the sleep, and the loop starts over.
Render ==
    /\ pc = "render"
    /\ ~RenderPanics(grid, solid_object)
    /\ observed' = render_grid(grid, solid_object)
    /\ log' = Append(log, "render")
    /\ ticks' = ticks + 1
    /\ pc' = "poll"
    /\ UNCHANGED <<config, grid, new_grid, solid_object, before, origin, stop>>

RenderPanic ==
    /\ pc = "render"
    /\ RenderPanics(grid, solid_object)
    /\ pc' = "panicked"
    /\ UNCHANGED <<config, grid, new_grid, solid_object, observed, ticks, log,
                   before, origin, stop>>

\* ---------------------------------------------------- main, as it is built
Init ==
    /\ pc = "init_grid"
    /\ config = MainConfig
    /\ grid = NoGrid
    /\ new_grid = NoGrid
    /\ solid_object = NoGrid
    /\ observed = NothingObserved
    /\ ticks = 0
    /\ log = << >>
    /\ before = NoGrid
    /\ origin = NoGrid
    /\ stop = NotStopped

Next ==
    \/ InitGrid
    \/ InitMask
    \/ PollEvent
    \/ PollEmpty
    \/ Source
    \/ Flux
    \/ Boundary
    \/ Update
    \/ Render

Spec == Init /\ [][Next]_vars

\* ------------------------------------- main, built with other dimensions
\* initialize_grid and create_solid_object take any usize dimensions: the
\* construction and the frame loop on undersized grids, and on masks whose
\* dimensions are not the grid's.
InitCtor ==
    /\ pc = "init_grid"
    /\ \E w \in 0..MaxDim, h \in (0..MaxDim) \cup {grid_height},
          mw \in {MaxDim, BLOCK_X_END, grid_width},
          mh \in {MaxDim, BLOCK_Y_END, grid_height} :
            config = [MainConfig EXCEPT !.width = w, !.height = h,
                                        !.mask_width = mw, !.mask_height = mh]
    /\ grid = NoGrid
    /\ new_grid = NoGrid
    /\ solid_object = NoGrid
    /\ observed = NothingObserved
    /\ ticks = 0
    /\ log = << >>
    /\ before = NoGrid
    /\ origin = NoGrid
    /\ stop = NotStopped

NextCtor ==
    \/ InitGrid
    \/ InitGridPanic
    \/ InitMask
    \/ InitMaskPanic
    \/ PollEvent
    \/ PollEmpty
    \/ Source
    \/ SourceUnderflowPanic
    \/ SourceUnderflowWrap
    \/ Flux
    \/ FluxPanic
    \/ Boundary
    \/ BoundaryPanic
    \/ Update
    \/ Render
    \/ RenderPanic

SpecCtor == InitCtor /\ [][NextCtor]_vars

\* ------------------------------------------ the operations, one at a time
\* Input grids for the pure operations.  Seed 0 is the all-ambient grid; the
\* other seeds give every cell its own density, momenta and energy.
Texture(seed, width, height) ==
    IF seed = 0 THEN AmbientGrid(width, height)
    ELSE [y \in 0..(height - 1) |-> [x \in 0..(width - 1) |->
            NewCell(Lit(1 + ((x + 2 * y + seed) % 3), 225),
                    Lit(((x + y + seed) % 3) - 1, 0),
                    Lit(((2 * x + y + seed) % 3) - 1, 0),
                    Lit(1000 + 100 * ((x * y + x + seed) % 4), 0))]]

NoSolid(width, height) ==
    [y \in 0..(height - 1) |-> [x \in 0..(width - 1) |-> FALSE]]

\* Solid masks of the grid's dimensions: none solid, one cell solid (any
\* cell, border cells included), all solid.
Masks(width, height) ==
    {NoSolid(width, height)}
    \cup {[NoSolid(width, height) EXCEPT ![sy][sx] = TRUE] :
            sy \in 0..(height - 1), sx \in 0..(width - 1)}
    \cup {[y \in 0..(height - 1) |-> [x \in 0..(width - 1) |-> TRUE]]}

IsSourceLog(l) == \A i \in 1..Len(l) : l[i] = "source"

InitFn ==
    /\ pc = "fn"
    /\ \E w \in 1..MaxDim, h \in 1..MaxDim, seed \in 0..MaxSeed :
        /\ config = [width |-> w, height |-> h, mask_width |-> w, mask_height |-> h,
                     inlet |-> 0, rate |-> 0, velocity |-> 0]
        /\ grid = Texture(seed, w, h)
        /\ solid_object = NoSolid(w, h)
    /\ new_grid = grid
    /\ origin = grid
    /\ before = grid
    /\ observed = NothingObserved
    /\ ticks = 0
    /\ log = << >>
    /\ stop = NotStopped

\* calculate_fluxes(&grid, &solid, GAMMA_AIR) on the input grid, with any mask.
FnFlux ==
    /\ pc = "fn"
    /\ log = << >>
    /\ \E mask \in Masks(config.width, config.height) :
        /\ solid_object' = mask
        /\ new_grid' = calculate_fluxes(grid, mask, GAMMA_AIR)
    /\ log' = <<"flux">>
    /\ UNCHANGED <<pc, config, grid, observed, ticks, before, origin, stop>>

\* apply_boundary_conditions on the input grid or on the stepped grid.
FnBoundary ==
    /\ pc = "fn"
    /\ log \in {<< >>, <<"flux">>}
    /\ ~BoundaryPanics(new_grid)
    /\ new_grid' = apply_boundary_conditions(new_grid)
    /\ log' = Append(log, "boundary")
    /\ UNCHANGED <<pc, config, grid, solid_object, observed, ticks, before, origin, stop>>

FnBoundaryPanic ==
    /\ pc = "fn"
    /\ log \in {<< >>, <<"flux">>}
    /\ BoundaryPanics(new_grid)
    /\ pc' = "panicked"
    /\ UNCHANGED <<config, grid, new_grid, solid_object, observed, ticks, log,
                   before, origin, stop>>

\* The parameters of a call of add_fluid_source: any on the first call, the
\* same again on the following ones.
SourceArgs(c) ==
    /\ c.inlet \in 0..(MaxDim + 1)
    /\ \E r \in 1..MaxRate : c.rate = Lit(r, 0)
    /\ \E v \in 0..MaxVelocity : c.velocity = Lit(v, 0)
    /\ log # << >> => c = config

ArgChoices ==
    {[config EXCEPT !.inlet = i, !.rate = Lit(r, 0), !.velocity = Lit(v, 0)] :
        i \in 0..(MaxDim + 1), r \in 1..MaxRate, v \in 0..MaxVelocity}

FnSource ==
    /\ pc = "fn"
    /\ IsSourceLog(log)
    /\ Len(log) < MaxCalls
    /\ \E c \in ArgChoices :
        /\ SourceArgs(c)
        /\ ~SourceUnderflows(grid, c.inlet)
        /\ config' = c
        /\ grid' = add_fluid_source(grid, c.inlet, c.rate, c.velocity)
    /\ before' = grid
    /\ log' = Append(log, "source")
    /\ UNCHANGED <<pc, new_grid, solid_object, observed, ticks, origin, stop>>

FnSourceUnderflowPanic ==
    /\ pc = "fn"
    /\ IsSourceLog(log)
    /\ Len(log) < MaxCalls
    /\ \E c \in ArgChoices :
        /\ SourceArgs(c)
        /\ SourceUnderflows(grid, c.inlet)
        /\ config' = c
    /\ pc' = "panicked"
    /\ UNCHANGED <<grid, new_grid, solid_object, observed, ticks, log, before,
                   origin, stop>>

FnSourceUnderflowWrap ==
    /\ pc = "fn"
    /\ IsSourceLog(log)
    /\ Len(log) < MaxCalls
    /\ \E c \in ArgChoices :
        /\ SourceArgs(c)
        /\ SourceUnderflows(grid, c.inlet)
        /\ config' = c
    /\ before' = grid
    /\ log' = Append(log, "source")
    /\ UNCHANGED <<pc, grid, new_grid, solid_object, observed, ticks, origin, stop>>

NextFn ==
    \/ FnFlux
    \/ FnBoundary
    \/ FnBoundaryPanic
    \/ FnSource
    \/ FnSourceUnderflowPanic
    \/ FnSourceUnderflowWrap

SpecFn == InitFn /\ [][NextFn]_vars

\* ================================================================ claims
IsBorder(y, x, width, height) ==
    x = 0 \/ x = width - 1 \/ y = 0 \/ y = height - 1

\* C1: calculate_fluxes returns a grid in which every solid cell and every
\* border cell holds the four fields the input grid holds at that
\* coordinate, and the input grid is not modified.  (SpecFn)
C1_FluxKeepsBorderAndSolid ==
    (pc = "fn" /\ log = <<"flux">>) =>
        /\ grid = origin
        /\ DOMAIN new_grid = DOMAIN origin
        /\ \A y \in DOMAIN origin :
            /\ DOMAIN new_grid[y] = DOMAIN origin[y]
            /\ \A x \in DOMAIN origin[y] :
                (solid_object[y][x] \/ IsBorder(y, x, config.width, config.height))
                    => new_grid[y][x] = origin[y][x]

\* C1's case: the step has run on a textured grid with a solid interior
\* cell, and has changed some other cell.
C1_Witness ==
    /\ pc = "fn" /\ log = <<"flux">>
    /\ config.width = MaxDim /\ config.height = MaxDim
    /\ solid_object[1][1] /\ ~solid_object[1][2]
    /\ new_grid[1][2] # origin[1][2]
    /\ origin # AmbientGrid(config.width, config.height)

\* C2: after apply_boundary_conditions on a grid at least 3 x 3, momentum_y
\* is zero on all four edges, the top and bottom rows hold the density and
\* energy of the rows next to them, and the left and right columns hold the
\* momentum_x of the columns next to them.  (SpecFn)
C2_BoundaryPostcondition ==
    ( /\ pc = "fn" /\ log # << >> /\ log[Len(log)] = "boundary"
      /\ config.width >= 3 /\ config.height >= 3 ) =>
        LET w == config.width
            h == config.height
        IN /\ \A y \in 0..(h - 1) :
                /\ new_grid[y][0].momentum_y = 0
                /\ new_grid[y][w - 1].momentum_y = 0
                /\ new_grid[y][0].momentum_x = new_grid[y][1].momentum_x
                /\ new_grid[y][w - 1].momentum_x = new_grid[y][w - 2].momentum_x
           /\ \A x \in 0..(w - 1) :
                /\ new_grid[0][x].momentum_y = 0
                /\ new_grid[h - 1][x].momentum_y = 0
                /\ new_grid[0][x].density = new_grid[1][x].density
                /\ new_grid[0][x].energy = new_grid[1][x].energy
                /\ new_grid[h - 1][x].density = new_grid[h - 2][x].density
                /\ new_grid[h - 1][x].energy = new_grid[h - 2][x].energy

\* C2's case: the enforcer has run on a stepped, textured grid whose edges
\* held other values before.
C2_Witness ==
    /\ pc = "fn" /\ log = <<"flux", "boundary">>
    /\ config.width >= 3 /\ config.height >= 3
    /\ origin[0][1].momentum_y # 0
    /\ origin[0][1].density # origin[1][1].density
    /\ origin[1][0].momentum_x # new_grid[1][0].momentum_x

\* The inlet band of the call recorded in config is well formed.
SourceCalled(k) ==
    /\ pc = "fn"
    /\ Len(log) = k
    /\ k >= 1
    /\ IsSourceLog(log)
    /\ ~SourceUnderflows(grid, config.inlet)

\* C3, as amended: one call of add_fluid_source increases the energy of
\* every inlet cell by exactly AIR_ENERGY + 100.0 (1100.0), whatever the
\* emission rate and the inlet velocity.  (SpecFn)
C3_EnergyInjection ==
    \A k \in 1..MaxCalls :
        SourceCalled(k) =>
            \A y \in InletRows(config.height, config.inlet) :
                grid[y][0].energy = before[y][0].energy + Lit(1100, 0)

\* C3, as stated: one call of add_fluid_source increases the energy of every
\* inlet cell by exactly AIR_ENERGY (1000.0).  (SpecFn)
C3_EnergyInjectionIsAirEnergy ==
    \A k \in 1..MaxCalls :
        SourceCalled(k) =>
            \A y \in InletRows(config.height, config.inlet) :
                grid[y][0].energy = before[y][0].energy + AIR_ENERGY

\* C3's case: one call has run on a non-empty inlet band, with the largest
\* emission rate and a non-zero velocity.
C3_Witness ==
    /\ SourceCalled(1)
    /\ InletRows(config.height, config.inlet) # {}
    /\ config.rate = Lit(MaxRate, 0)
    /\ config.velocity # 0

\* C4: after k calls of add_fluid_source in a row with emission rate r and
\* inlet velocity v, every inlet cell has its first density + k * r and
\* momentum_x exactly v, whatever momentum_x it had before.  (SpecFn)
C4_DensityAccumulatesMomentumOverwritten ==
    \A k \in 1..MaxCalls :
        SourceCalled(k) =>
            \A y \in InletRows(config.height, config.inlet) :
                /\ grid[y][0].density = origin[y][0].density + k * config.rate
                /\ grid[y][0].momentum_x = config.velocity

\* C4's case: two calls on a full-height inlet of an even-height grid whose
\* inlet cells had a momentum_x other than the inlet velocity.
C4_Witness ==
    /\ SourceCalled(2)
    /\ config.height % 2 = 0
    /\ config.inlet = config.height
    /\ InletRows(config.height, config.inlet) = 0..(config.height - 1)
    /\ origin[config.height \div 2][0].momentum_x # 0
    /\ origin[config.height \div 2][0].momentum_x # config.velocity
    /\ grid[config.height \div 2][0].momentum_x = config.velocity

\* C5: on the all-ambient grid with no solid cell and no source injection,
\* calculate_fluxes followed by apply_boundary_conditions changes nothing:
\* density and energy stay ambient and both momenta stay zero at every
\* cell, for every width and height from 3 up.  (SpecFn)
C5_AmbientFixedPoint ==
    ( /\ pc = "fn"
      /\ log = <<"flux", "boundary">>
      /\ config.width >= 3 /\ config.height >= 3
      /\ origin = AmbientGrid(config.width, config.height)
      /\ solid_object = NoSolid(config.width, config.height) ) =>
        \A y \in 0..(config.height - 1), x \in 0..(config.width - 1) :
            /\ new_grid[y][x].density = AIR_DENSITY
            /\ new_grid[y][x].energy = AIR_ENERGY
            /\ new_grid[y][x].momentum_x = 0
            /\ new_grid[y][x].momentum_y = 0

\* C5's case: the step and the enforcer have run on the largest all-ambient
\* grid with no solid cell.
C5_Witness ==
    /\ pc = "fn"
    /\ log = <<"flux", "boundary">>
    /\ config.width = MaxDim /\ config.height = MaxDim
    /\ origin = AmbientGrid(config.width, config.height)
    /\ solid_object = NoSolid(config.width, config.height)

\* C6: with a grid narrower or lower than 3 cells, or a solid mask whose
\* dimensions are not the grid's, construction fails and the frame loop
\* never runs a frame on such a grid.  (SpecCtor)
InvalidConfiguration ==
    \/ config.width < 3
    \/ config.height < 3
    \/ config.mask_width # config.width
    \/ config.mask_height # config.height

\* C6, stated by its conclusion: on such a configuration no frame is ever
\* completed.  (SpecCtor)
C6_NoFrameOnInvalidConfiguration ==
    InvalidConfiguration => ticks = 0

\* C7: every frame runs source, flux step, boundary enforcer, grid
\* replacement and render in that order, and what render_grid is handed at
\* the end of a frame is the owned grid, which is the boundary enforcer
\* applied to the flux step applied to the source injection applied to the
\* grid the frame started with -- never a grid part of the way there.
C7_RenderObservesCompleteTick ==
    /\ Len(log) <= Len(TickOrder)
    /\ \A i \in 1..Len(log) : log[i] = TickOrder[i]
    /\ pc \in {"flux", "boundary", "update", "render"} =>
            pc = TickOrder[Len(log) + 1]
    /\ (pc = "poll" /\ ticks > 0) =>
        LET injected == add_fluid_source(before, INLET_WIDTH,
                                         Lit(EMISSION_RATE, 0), Lit(FLUID_VELOCITY, 0))
            stepped == calculate_fluxes(injected, solid_object, GAMMA_AIR)
            bounded == apply_boundary_conditions(stepped)
        IN /\ log = TickOrder
           /\ grid = bounded
           /\ observed.grid = bounded
           /\ observed.solid = solid_object

\* C7's case: a second frame has been rendered, and it changed the grid.
C7_Witness ==
    /\ pc = "poll"
    /\ ticks = 2
    /\ log = TickOrder
    /\ observed.grid = grid
    /\ observed.grid # before

\* C8: once a quit signal (the window's Quit event or the Escape key) has
\* been polled the driver is stopped and stays so: no source injection, flux
\* step, boundary pass, grid replacement or render follows, and the grid
\* keeps the value it had at the end of the last completed frame.
C8_StoppedIsTerminal ==
    /\ pc \in {"init_grid", "init_mask", "poll", "source", "flux", "boundary",
                "update", "render", "stopped"}
    /\ pc = "stopped" => stop.polled
    /\ stop.polled =>
        /\ pc = "stopped"
        /\ grid = stop.grid
        /\ observed = stop.observed
        /\ ticks = stop.ticks
        /\ log = stop.log
        /\ new_grid = NoGrid
        /\ ticks > 0 => grid = observed.grid

\* C8's case: the Escape key was polled after some frames had run.
C8_Witness ==
    /\ pc = "stopped"
    /\ stop.polled
    /\ stop.event = "KeyDownEscape"
    /\ ticks >= 2

\* C9: in main's configuration the solid mask is, at all times, the block
\* of rows 20..39 and columns 30..49 of an 80 x 60 mask, and every solid cell
\* holds its initial values -- ambient, and at the seeded centre cell
\* (x = 40, y = 30) density 10.0 and energy 1000.0 -- in the owned grid and
\* in the grid under construction.
InitialSolidCell(y, x) ==
    IF y = 30 /\ x = 40
    THEN NewCell(Lit(10, 0), 0, 0, Lit(1000, 0))
    ELSE NewCell(AIR_DENSITY, 0, 0, AIR_ENERGY)

C9_SolidCellsNeverWritten ==
    pc \notin {"init_grid", "init_mask"} =>
        /\ DOMAIN solid_object = 0..59
        /\ \A y \in 0..59 :
            /\ DOMAIN solid_object[y] = 0..79
            /\ \A x \in 0..79 :
                solid_object[y][x] <=> (20 <= y /\ y <= 39 /\ 30 <= x /\ x <= 49)
        /\ \A y \in 20..39, x \in 30..49 :
            /\ grid[y][x] = InitialSolidCell(y, x)
            /\ new_grid # NoGrid => new_grid[y][x] = InitialSolidCell(y, x)

\* C9's case: frames have run and changed the grid, and the seeded centre
\* cell lies in the block.
C9_Witness ==
    /\ pc = "poll"
    /\ ticks >= 2
    /\ grid # origin
    /\ solid_object[30][40]
    /\ grid[30][40].density = Lit(10, 0)

\* The frames whose source injection has run.
Injections == ticks + (IF pc \in {"flux", "boundary", "update", "render"} THEN 1 ELSE 0)

\* C10: in main's configuration no step of a frame lowers or resets the
\* density of an inlet cell grid[y][0], 20 <= y < 40: it is AIR_DENSITY +
\* n * 20000 after n injections, hence after n completed frames; the cells
\* of column 0 outside the inlet band and outside rows 0 and 59 keep
\* AIR_DENSITY.
C10_InletDensityGrowsLinearly ==
    pc \notin {"init_grid", "init_mask"} =>
        /\ \A y \in 20..39 :
                grid[y][0].density = AIR_DENSITY + Injections * Lit(20000, 0)
        /\ \A y \in (1..19) \cup (40..58) :
                grid[y][0].density = AIR_DENSITY
        /\ pc \in {"update", "render"} /\ new_grid # NoGrid =>
                \A y \in 20..39 :
                    new_grid[y][0].density = AIR_DENSITY + Injections * Lit(20000, 0)

\* C10's case: three frames have completed.
C10_Witness ==
    /\ pc = "poll"
    /\ ticks = 3
    /\ grid[20][0].density = AIR_DENSITY + 3 * Lit(20000, 0)
    /\ grid[39][0].density > grid[40][0].density

====
